---- MODULE Spec2Model ----
(***************************************************************************)
(* Model of the Career Compass backend (python-backend/agents_v2):         *)
(*   - CareerOrchestratorAgent._normalize_scores, the score-distribution   *)
(*     normalizer (orchestrator_agent.py), as operators and the            *)
(*     specification NormSpec that applies it to bounded inputs;           *)
(*   - CareerAnalysisPipeline.analyze (pipeline.py) with the five          *)
(*     analyzer agents and CareerOrchestratorAgent.recommend, as the       *)
(*     state machine Spec whose steps are the coroutine's segments         *)
(*     between awaits.                                                     *)
(***************************************************************************)
EXTENDS Integers, Sequences, FiniteSets, TLC

\* ------------------------------------------------------------------------
\* Bounds
\* ------------------------------------------------------------------------
\* longest enumerated candidate list handed to the normalizer
MaxLen == 4
\* longest candidate list the generation capability returns in a pipeline run
MaxGenLen == 2
\* longest careerIds list sent to /api/selected-careers
MaxIds == 4
\* most calls of analyze_career made on the shared legacy orchestrator
MaxCalls == 3

\* fitScore values the enumerated lists draw from: both sides of every band
\* edge (60, 70, 85) plus values outside the declared bands
Scores == {40, 59, 60, 69, 70, 84, 85, 100}
\* fitScore values of the generated lists in a pipeline run
GenScores == {50, 65, 75, 90}

VARIABLES
    \* ---- normalizer harness ----
    npc,              \* "ready" before the call, "done" after it
    recommendations,  \* the list passed to _normalize_scores
    normalized,       \* the list it returned
    \* ---- pipeline run ----
    pc,               \* position of CareerAnalysisPipeline.analyze
    transcriptLen,    \* len(transcript) of the run
    agentPc,          \* per analyzer: "idle", "scheduled", "awaiting", "done"
    agentResult,      \* per analyzer: what its analyze coroutine returned
    calls,            \* per analyzer: number of invocations of analyze
    llmCalls,         \* per analyzer: number of llm.chat calls it made
    genCalls,         \* number of llm.chat calls made by recommend
    llmOutcome,       \* per analyzer: what its llm.chat call answered
    career_profile,   \* the profile built at pipeline.py:85
    genOutcome,       \* what the generation capability answered
    recommendations_result,  \* what recommend returned to analyze
    ret,              \* what analyze returned (or raised)
    stages,           \* the stages the run has been through, in order
    \* ---- /api/selected-careers ----
    sel,              \* the request being served and its response
    \* ---- CareerOrchestratorAgent.recommend on its own ----
    rq,               \* the call: transcript, capability answer, result
    \* ---- legacy CareerAnalysisOrchestrator ----
    lg,               \* the shared instance and the call it is serving
    \* ---- the fan-out of analyze on its own ----
    ga                \* completion order, gathered results, profile

vars == <<npc, recommendations, normalized, pc, transcriptLen, agentPc,
          agentResult, calls, llmCalls, genCalls, llmOutcome,
          career_profile, genOutcome, recommendations_result, ret, stages,
          sel, rq, lg, ga>>

normVars == <<npc, recommendations, normalized>>
pipeVars == <<pc, transcriptLen, agentPc, agentResult, calls, llmCalls,
              genCalls, llmOutcome, career_profile, genOutcome,
              recommendations_result, ret, stages>>
selVars == <<sel>>
recVars == <<rq>>
legVars == <<lg>>
ordVars == <<ga>>

\* ------------------------------------------------------------------------
\* Candidates
\* ------------------------------------------------------------------------
\* A candidate of the generated list.  careerId is a number standing for the
\* kebab-case id; a generated candidate carries its position in the generated
\* list, which identifies it after sorting.  details stands for the text
\* fields generated with it: careerName, summary, medianSalary,
\* growthOutlook, estimatedTime and whyGoodFit.
Candidate(id, score) ==
    [careerId |-> id, fitScore |-> score,
     industry |-> IF id % 2 = 1 THEN "Technology" ELSE "Healthcare",
     details |-> id]

\* the generated list whose i-th candidate has fitScore scores[i]
MkRecs(scores) == [i \in 1..Len(scores) |-> Candidate(i, scores[i])]

BoundedSeq(S, n) == UNION {[1..m -> S] : m \in 0..n}

Repeat(x, n) == [i \in 1..n |-> x]

\* ------------------------------------------------------------------------
\* _normalize_scores
\* ------------------------------------------------------------------------
\* an unstable sort: a candidate overtakes the earlier candidates it ties with
RECURSIVE InsertDescUnstable(_, _)
InsertDescUnstable(sorted, r) ==
    IF sorted = <<>> THEN <<r>>
    ELSE IF Head(sorted).fitScore > r.fitScore
         THEN <<Head(sorted)>> \o InsertDescUnstable(Tail(sorted), r)
         ELSE <<r>> \o sorted

\* list.sort(key=fitScore, reverse=True) is stable: a candidate is placed
\* behind every candidate whose fitScore is at least its own.
RECURSIVE InsertDesc(_, _)
InsertDesc(sorted, r) ==
    IF sorted = <<>> THEN <<r>>
    ELSE IF Head(sorted).fitScore >= r.fitScore
         THEN <<Head(sorted)>> \o InsertDesc(Tail(sorted), r)
         ELSE <<r>> \o sorted

RECURSIVE SortDescUpTo(_, _)
SortDescUpTo(recs, n) ==
    IF n = 0 THEN <<>>
    ELSE InsertDesc(SortDescUpTo(recs, n - 1), recs[n])

\* a sort without reverse=True read from the back: ties come out reversed
SortDescReversed(recs) ==
    LET sorted == SortDescUpTo(recs, Len(recs)) IN
    [i \in 1..Len(recs) |-> sorted[Len(recs) + 1 - i]]

SortDesc(recs) == SortDescUpTo(recs, Len(recs))

\* scores = [r.get("fitScore", 0) for r in recommendations]
scores(recs) == [i \in 1..Len(recs) |-> recs[i].fitScore]

\* sum(1 for s in scores if ...) for the three bands
high_scores(recs) ==
    Cardinality({i \in 1..Len(recs) : scores(recs)[i] >= 85})
mid_scores(recs) ==
    Cardinality({i \in 1..Len(recs) :
                    70 <= scores(recs)[i] /\ scores(recs)[i] < 85})
\* a low band that takes in every score below 70
low_scores_below70(recs) ==
    Cardinality({i \in 1..Len(recs) : scores(recs)[i] < 70})

low_scores(recs) ==
    Cardinality({i \in 1..Len(recs) :
                    60 <= scores(recs)[i] /\ scores(recs)[i] < 70})

\* a health check whose high-band ceiling is 40% instead of 60%
HealthyHighAt40(recs) ==
    LET total == Len(recs) IN
    /\ 10 * high_scores(recs) <= 4 * total
    /\ 5 * mid_scores(recs) >= total
    /\ 100 * low_scores(recs) >= 15 * total

\* high <= total*0.6 and mid >= total*0.2 and low >= total*0.15, over the
\* integers (the float products compare the same way for every total <= 60)
Healthy(recs) ==
    LET total == Len(recs) IN
    /\ 10 * high_scores(recs) <= 6 * total
    /\ 5 * mid_scores(recs) >= total
    /\ 100 * low_scores(recs) >= 15 * total

\* a top tier of 70% instead of 50%
target_high_70(total) == (7 * total) \div 10

\* int(total * 0.5), int(total * 0.3) and the remainder
target_high(total) == total \div 2
\* a middle tier of 20% instead of 30%
target_mid_20(total) == (2 * total) \div 10

target_mid(total) == (3 * total) \div 10
target_low(total) == total - target_high(total) - target_mid(total)

Max(a, b) == IF a >= b THEN a ELSE b

\* a denominator without the clamp
tier_denominator_unclamped(size) == size - 1

\* max(tier size - 1, 1), the denominator of a tier's step
tier_denominator(size) == Max(size - 1, 1)

\* int(top - rank * (span / denominator)) for a non-negative result: top
\* minus the quotient rounded up.  A zero denominator raises
\* ZeroDivisionError in the code (see RescaleRaises); no score is computed.
TierScore(top, span, rank, size) ==
    LET d == tier_denominator(size) IN
    IF d = 0 THEN top ELSE top - ((rank * span + d - 1) \div d)

\* the size of the tier that 0-based rank i of a list of length total is in
TierSizeOf(i, total) ==
    IF i < target_high(total) THEN target_high(total)
    ELSE IF i < target_high(total) + target_mid(total) THEN target_mid(total)
    ELSE target_low(total)

\* the redistribution loop divides by zero at some rank
RescaleRaises(total) ==
    \E i \in 0..(total - 1) : tier_denominator(TierSizeOf(i, total)) = 0

\* a sign slip in the high tier: the score grows with the rank
new_score_rising(i, total) ==
    LET th == target_high(total)
        tm == target_mid(total)
        tl == target_low(total)
    IN IF i < th THEN Max(85, 95 + (95 - TierScore(95, 10, i, th)))
       ELSE IF i < th + tm THEN Max(70, TierScore(84, 14, i - th, tm))
       ELSE Max(60, TierScore(69, 9, i - th - tm, tl))

\* the fitScore assigned to 0-based rank i of a list of length total
new_score(i, total) ==
    LET th == target_high(total)
        tm == target_mid(total)
        tl == target_low(total)
    IN IF i < th THEN Max(85, TierScore(95, 10, i, th))
       ELSE IF i < th + tm THEN Max(70, TierScore(84, 14, i - th, tm))
       ELSE Max(60, TierScore(69, 9, i - th - tm, tl))

\* a redistribution that walks the high and middle tiers only and returns
\* the candidates it walked
RescaleWithoutLowTier(sorted) ==
    LET n == target_high(Len(sorted)) + target_mid(Len(sorted)) IN
    [i \in 1..n |->
        [sorted[i] EXCEPT !.fitScore = new_score(i - 1, Len(sorted))]]

\* the redistribution loop: every candidate of the sorted list keeps its
\* place and gets the score of its rank
Rescale(sorted) ==
    [i \in 1..Len(sorted) |->
        [sorted[i] EXCEPT !.fitScore = new_score(i - 1, Len(sorted))]]

\* a normalizer that returns fresh candidates holding the id and the score
normalize_scores_rebuilt(recs) ==
    IF recs = <<>> THEN recs
    ELSE LET sorted == SortDesc(recs)
             out == IF Healthy(sorted) THEN sorted ELSE Rescale(sorted)
         IN [i \in 1..Len(out) |->
                [careerId |-> out[i].careerId, fitScore |-> out[i].fitScore]]

normalize_scores(recs) ==
    IF recs = <<>> THEN recs
    ELSE LET sorted == SortDesc(recs) IN
         IF Healthy(sorted) THEN sorted ELSE Rescale(sorted)

\* _normalize_scores ends in ZeroDivisionError instead of returning
normalize_raises(recs) ==
    /\ recs # <<>>
    /\ ~Healthy(SortDesc(recs))
    /\ RescaleRaises(Len(recs))

\* ------------------------------------------------------------------------
\* JSON values exchanged between the capability, the agents and the pipeline
\* ------------------------------------------------------------------------
\* the five analyzers, in the order asyncio.gather lists them
Kinds == {"skills", "personality", "passions", "goals", "values"}

\* A payload is a JSON list or a JSON object; its items are <<name, value>>
\* pairs.
EmptyList == [shape |-> "list", items |-> <<>>]
EmptyDict == [shape |-> "dict", items |-> <<>>]

\* the object GoalLifestyleAgent returns from its except branch
GoalsDefault ==
    [shape |-> "dict",
     items |-> << <<"timeframe", "1-2 years">>,
                  <<"incomePreference", "moderate">>,
                  <<"locationPreference", "flexible">>,
                  <<"workingStyle", "hybrid">> >>]

\* what the capability's well-formed answer holds for kind k
Produced(k) ==
    IF k = "goals"
    THEN [shape |-> "dict", items |-> << <<"timeframe", "6 months">> >>]
    ELSE [shape |-> "list", items |-> << <<"name", k>> >>]

\* a JSON object with one entry; a JSON value that is no object (a list, a
\* string, a number, null); Python's None
Dict1(key, val) == [tag |-> "dict", key |-> key, val |-> val]
NonDict == [tag |-> "nondict", key |-> "", val |-> EmptyList]
NoResult == [tag |-> "none", key |-> "", val |-> EmptyList]

\* d.get(key, default) of a one-entry object
Get(d, key, default) == IF d.key = key THEN d.val ELSE default

\* What an analyzer's llm.chat call can answer, by what json.loads makes of
\* the stripped content: an object with the expected key, an object without
\* it, a JSON value that is no object, text that does not decode, or the
\* call raising.
LLMOutcomes == {"ok", "nokey", "nondict", "garbage", "raise"}

\* json.loads of a decodable answer
LLMValue(k, o) ==
    IF o = "ok" THEN Dict1(k, Produced(k))
    ELSE IF o = "nokey" THEN Dict1("data", Produced(k))
    ELSE NonDict

\* ------------------------------------------------------------------------
\* The analyzer agents
\* ------------------------------------------------------------------------
\* try: chat, json.loads, log len(result.get(key, [])), return result
\* except Exception: return the agent's fallback.  The log line raises on a
\* result that is no object, so such a result takes the except branch too.
ListAgentAnalyze(k, o) ==
    IF o \in {"ok", "nokey"} THEN LLMValue(k, o) ELSE Dict1(k, EmptyList)

SkillAgent_analyze(o) == ListAgentAnalyze("skills", o)
PersonalityAgent_analyze(o) == ListAgentAnalyze("personality", o)
PassionAgent_analyze(o) == ListAgentAnalyze("passions", o)
ValuesAgent_analyze(o) == ListAgentAnalyze("values", o)

\* GoalLifestyleAgent's log line does not read the result, so every decoded
\* value is returned as it is
GoalLifestyleAgent_analyze(o) ==
    IF o \in {"garbage", "raise"} THEN Dict1("goals", GoalsDefault)
    ELSE LLMValue("goals", o)

AgentAnalyze(k, o) ==
    CASE k = "skills" -> SkillAgent_analyze(o)
      [] k = "personality" -> PersonalityAgent_analyze(o)
      [] k = "passions" -> PassionAgent_analyze(o)
      [] k = "goals" -> GoalLifestyleAgent_analyze(o)
      [] k = "values" -> ValuesAgent_analyze(o)

\* ------------------------------------------------------------------------
\* CareerOrchestratorAgent.recommend
\* ------------------------------------------------------------------------
\* careerId "error-fallback" of the sentinel candidate
ErrorFallbackId == 0

Sentinel ==
    [careerId |-> ErrorFallbackId, fitScore |-> 0, industry |-> "System",
     details |-> 0]

\* a generated list in which two candidates carry the same careerId
DupIdLists == {<<Candidate(1, 90), Candidate(1, 75)>>}

GenLists == {MkRecs(s) : s \in BoundedSeq(GenScores, MaxGenLen)} \cup DupIdLists

\* What the generation capability can answer: an object with a
\* recommendations list, an object without that key, a JSON value that is no
\* object, text that does not decode, or the call raising.
\* what the answer of the generation capability decodes to, besides a
\* list under the key recommendations: an object without that key, a JSON
\* value that is no object, an object whose recommendations value is no
\* list (a number, null, a non-empty object), or a list whose fitScore
\* values cannot be compared with each other or with 85 (strings, null)
DecodedKinds == {"nokey", "nondict", "badlist", "badscores"}

GenOutcomes ==
    {[kind |-> "list", recs |-> l] : l \in GenLists}
    \cup {[kind |-> g, recs |-> <<>>] :
            g \in DecodedKinds \cup {"undecodable", "raise"}}

NoGen == [kind |-> "none", recs |-> <<>>]

RecResult(recs) == [tag |-> "dict", recommendations |-> recs]
None == [tag |-> "none", recommendations |-> <<>>]

\* a fallback that holds no candidate
RecommendFallbackEmpty == RecResult(<<>>)

\* the except Exception branch: the one-candidate fallback set
RecommendFallback == RecResult(<<Sentinel>>)

\* the except json.JSONDecodeError branch: it logs and the function ends
\* without a return statement
RecommendOnDecodeError == None

\* the fewest recommendations that draw no warning
MinCount == 15

\* if len(recommendations) < 15: logger.warning(...)
count_warns(n) == n < MinCount

\* a count check that raises below the minimum
count_check_raises_below_min(n) == n < MinCount

\* the count check raises nothing, whatever the count
count_check_raises(n) == FALSE

\* the body of recommend from the decoding of the answer of llm.chat on:
\* result.get on a non-object, len or sort of a non-list and the comparison
\* of incomparable scores raise inside the try and end in except Exception
recommend(g) ==
    CASE g.kind = "raise" -> RecommendFallback
      [] g.kind = "undecodable" -> RecommendOnDecodeError
      [] g.kind = "nondict" -> RecommendFallback
      [] g.kind = "badlist" -> RecommendFallback
      [] g.kind = "badscores" -> RecommendFallback
      [] g.kind = "nokey" -> IF count_check_raises(0)
                             THEN RecommendFallback
                             ELSE RecResult(normalize_scores(<<>>))
      [] g.kind = "list" -> IF \/ count_check_raises(Len(g.recs))
                               \/ normalize_raises(g.recs)
                            THEN RecommendFallback
                            ELSE RecResult(normalize_scores(g.recs))

\* ------------------------------------------------------------------------
\* CareerAnalysisPipeline.analyze
\* ------------------------------------------------------------------------
\* min_length of OnboardingRequest.transcript
MinTranscriptLen == 10

\* lengths of the transcripts handed to analyze: empty, short, ordinary
TranscriptLens == {0, 5, 20}

\* the fallback substituted for a gathered result that is an exception
GatherFallback(k) == Dict1(k, IF k = "goals" THEN EmptyDict ELSE EmptyList)

\* results[i] if not isinstance(results[i], Exception) else fallback
Extract(k, r) == IF r.tag = "exc" THEN GatherFallback(k) ELSE r

\* a profile that holds only the kinds whose result carries the key
BuildCareerProfileSparse(rs) ==
    [k \in {kk \in Kinds : rs[kk].key = kk} |-> rs[k].val]

\* the career_profile literal: every key read with its empty default
BuildCareerProfile(rs) ==
    [k \in Kinds |->
        Get(Extract(k, rs[k]), k, IF k = "goals" THEN EmptyDict ELSE EmptyList)]

\* a .get on a gathered result raises AttributeError unless it is an object
ProfileRaises(rs) == \E k \in Kinds : Extract(k, rs[k]).tag # "dict"

FallbackProfile == [k \in Kinds |-> IF k = "goals" THEN EmptyDict ELSE EmptyList]

NoReturn ==
    [status |-> "pending", error |-> "",
     careerProfile |-> [k \in Kinds |-> EmptyList],
     careerRecommendations |-> <<>>]

\* an except branch that logs and re-raises
PipelineFallbackReraise ==
    [status |-> "raised", error |-> "Exception",
     careerProfile |-> FallbackProfile,
     careerRecommendations |-> <<>>]

\* the except Exception branch of analyze: the minimal fallback result
PipelineFallback ==
    [status |-> "returned", error |-> "",
     careerProfile |-> FallbackProfile,
     careerRecommendations |-> <<>>]

PipelineReturn(profile, rr) ==
    [status |-> "returned", error |-> "",
     careerProfile |-> profile,
     careerRecommendations |-> rr.recommendations]

\* what the caller of a cancelled analyze gets: CancelledError is no
\* Exception, so the except branch of analyze does not catch it
CancelledRaise ==
    [status |-> "raised", error |-> "CancelledError",
     careerProfile |-> [k \in Kinds |-> EmptyList],
     careerRecommendations |-> <<>>]

\* the request of /api/selected-careers is not being served
SelOff ==
    [pc |-> "off", careerIds |-> <<>>, compass |-> FALSE, plans |-> <<>>,
     status |-> 0]

\* no answer of the generation capability yet
NoAnswer ==
    [kind |-> "none", wrap |-> "bare", inner |-> <<>>,
     value |-> [kind |-> "none", recs |-> <<>>]]

\* recommend is not being called on its own
RqOff ==
    [pc |-> "off", transcript |-> <<>>, context |-> <<>>,
     answer |-> NoAnswer, result |-> None, warned |-> FALSE]

\* analysis_order of CareerAnalysisOrchestrator.analyze_career
analysis_order ==
    <<"skills", "personality", "passions", "goals", "values",
      "recommendations", "action_plan">>

\* self.results = {} of a new orchestrator: no agent has an entry (0)
NoResults == [i \in 1..Len(analysis_order) |-> 0]

\* the legacy orchestrator is not in use
LegOff ==
    [pc |-> "off", call |-> 0, step |-> 0, results |-> NoResults,
     returned |-> NoResults, success |-> FALSE]

\* the fan-out is not being run on its own
GaOff ==
    [pc |-> "off", arrival |-> <<>>, outcome |-> [k \in Kinds |-> "none"],
     results |-> <<>>, profile |-> [k \in Kinds |-> EmptyList]]

PipelineOff ==
    /\ pc = "off"
    /\ transcriptLen = 0
    /\ agentPc = [k \in Kinds |-> "idle"]
    /\ agentResult = [k \in Kinds |-> NoResult]
    /\ calls = [k \in Kinds |-> 0]
    /\ llmCalls = [k \in Kinds |-> 0]
    /\ genCalls = 0
    /\ llmOutcome = [k \in Kinds |-> "none"]
    /\ career_profile = [k \in Kinds |-> EmptyList]
    /\ genOutcome = NoGen
    /\ recommendations_result = None
    /\ ret = NoReturn
    /\ stages = <<>>

Init ==
    /\ npc = "off"
    /\ recommendations = <<>>
    /\ normalized = <<>>
    /\ sel = SelOff
    /\ rq = RqOff
    /\ lg = LegOff
    /\ ga = GaOff
    /\ pc = "received"
    /\ transcriptLen \in TranscriptLens
    /\ agentPc = [k \in Kinds |-> "idle"]
    /\ agentResult = [k \in Kinds |-> NoResult]
    /\ calls = [k \in Kinds |-> 0]
    /\ llmCalls = [k \in Kinds |-> 0]
    /\ genCalls = 0
    /\ llmOutcome = [k \in Kinds |-> "none"]
    /\ career_profile = [k \in Kinds |-> EmptyList]
    /\ genOutcome = NoGen
    /\ recommendations_result = None
    /\ ret = NoReturn
    /\ stages = <<"Received">>

\* analyze up to the await of asyncio.gather: the five analyze coroutines
\* are created and scheduled, whatever the transcript is
AnalyzeStart ==
    /\ pc = "received"
    /\ pc' = "gathering"
    /\ calls' = [k \in Kinds |-> calls[k] + 1]
    /\ agentPc' = [k \in Kinds |-> "scheduled"]
    /\ stages' = Append(stages, "FannedOut")
    /\ UNCHANGED <<transcriptLen, agentResult, llmCalls, genCalls, llmOutcome,
                   career_profile, genOutcome, recommendations_result, ret>>
    /\ UNCHANGED <<normVars, selVars, recVars, legVars, ordVars>>

\* an analyzer runs up to its await of llm.chat
AgentCallLLM(k) ==
    /\ pc = "gathering"
    /\ agentPc[k] = "scheduled"
    /\ agentPc' = [agentPc EXCEPT ![k] = "awaiting"]
    /\ llmCalls' = [llmCalls EXCEPT ![k] = @ + 1]
    /\ UNCHANGED <<pc, transcriptLen, agentResult, calls, genCalls, llmOutcome,
                   career_profile, genOutcome, recommendations_result, ret,
                   stages>>
    /\ UNCHANGED <<normVars, selVars, recVars, legVars, ordVars>>

\* the capability answers analyzer k with o and the analyzer runs to its end
AgentLLMReturn(k, o) ==
    /\ pc = "gathering"
    /\ agentPc[k] = "awaiting"
    /\ agentPc' = [agentPc EXCEPT ![k] = "done"]
    /\ llmOutcome' = [llmOutcome EXCEPT ![k] = o]
    /\ agentResult' = [agentResult EXCEPT ![k] = AgentAnalyze(k, o)]
    /\ UNCHANGED <<pc, transcriptLen, calls, llmCalls, genCalls,
                   career_profile, genOutcome, recommendations_result, ret,
                   stages>>
    /\ UNCHANGED <<normVars, selVars, recVars, legVars, ordVars>>

\* the capability call of analyzer k stops responding for good: the await
\* of llm.chat carries no timeout, so the analyzer stays suspended
AgentLLMHang(k) ==
    /\ pc = "gathering"
    /\ agentPc[k] = "awaiting"
    /\ agentPc' = [agentPc EXCEPT ![k] = "hung"]
    /\ UNCHANGED <<pc, transcriptLen, agentResult, calls, llmCalls, genCalls,
                   llmOutcome, career_profile, genOutcome,
                   recommendations_result, ret, stages>>
    /\ UNCHANGED <<normVars, selVars, recVars, legVars, ordVars>>

\* a gather that gives up waiting once a branch has failed
GatherReadyOnFirstFailure ==
    \/ \A k \in Kinds : agentPc[k] = "done"
    \/ \E k \in Kinds : /\ agentPc[k] = "done"
                        /\ llmOutcome[k] \in {"raise", "garbage"}

\* asyncio.gather(..., return_exceptions=True) resumes analyze when every
\* one of the five coroutines has finished
GatherReady == \A k \in Kinds : agentPc[k] = "done"

\* gather has every result: analyze extracts them, builds the profile and
\* calls recommend, which runs up to its await of llm.chat; an exception on
\* the way ends the run in the except branch
GatherDone ==
    /\ pc = "gathering"
    /\ GatherReady
    /\ IF ProfileRaises(agentResult)
       THEN /\ pc' = "returned"
            /\ ret' = PipelineFallback
            /\ stages' = Append(stages, "Returned")
            /\ UNCHANGED <<career_profile, genCalls>>
       ELSE /\ pc' = "generating"
            /\ career_profile' = BuildCareerProfile(agentResult)
            /\ genCalls' = genCalls + 1
            /\ stages' = Append(stages, "Aggregated")
            /\ UNCHANGED ret
    /\ UNCHANGED <<transcriptLen, agentPc, agentResult, calls, llmCalls,
                   llmOutcome, genOutcome, recommendations_result>>
    /\ UNCHANGED <<normVars, selVars, recVars, legVars, ordVars>>

\* the stages recommend goes through on answer g: Generated once json.loads
\* has decoded the answer, Normalized once _normalize_scores has been called
GenStages(g) ==
    CASE g.kind \in {"list", "nokey"} -> <<"Generated", "Normalized">>
      [] g.kind = "nondict" -> <<"Generated">>
      [] OTHER -> <<>>

\* the generation capability answers g: recommend runs to its end and
\* analyze reads its result and returns; reading None raises AttributeError,
\* which ends the run in the except branch
GenReturn(g) ==
    /\ pc = "generating"
    /\ genOutcome' = g
    /\ recommendations' = IF g.kind = "list" THEN g.recs ELSE <<>>
    /\ normalized' = recommend(g).recommendations
    /\ recommendations_result' = recommend(g)
    /\ ret' = IF recommend(g).tag = "dict"
              THEN PipelineReturn(career_profile, recommend(g))
              ELSE PipelineFallback
    /\ pc' = "returned"
    /\ stages' = stages \o GenStages(g) \o <<"Returned">>
    /\ UNCHANGED <<npc, transcriptLen, agentPc, agentResult, calls, llmCalls,
                   genCalls, llmOutcome, career_profile>>
    /\ UNCHANGED <<selVars, recVars, legVars, ordVars>>

\* the caller cancels the task running analyze: CancelledError is raised at
\* the await analyze is suspended in, gather cancels the branches that have
\* not finished, and the error leaves analyze
Cancel ==
    /\ pc \in {"gathering", "generating"}
    /\ pc' = "cancelled"
    /\ agentPc' = [k \in Kinds |->
                     IF agentPc[k] = "done" THEN "done" ELSE "cancelled"]
    /\ ret' = CancelledRaise
    /\ stages' = Append(stages, "Cancelled")
    /\ UNCHANGED <<transcriptLen, agentResult, calls, llmCalls, genCalls,
                   llmOutcome, career_profile, genOutcome,
                   recommendations_result>>
    /\ UNCHANGED <<normVars, selVars, recVars, legVars, ordVars>>

Next ==
    \/ AnalyzeStart
    \/ \E k \in Kinds : AgentCallLLM(k)
    \/ \E k \in Kinds, o \in LLMOutcomes : AgentLLMReturn(k, o)
    \/ \E k \in Kinds : AgentLLMHang(k)
    \/ GatherDone
    \/ \E g \in GenOutcomes : GenReturn(g)
    \/ Cancel

Spec == Init /\ [][Next]_vars

\* ------------------------------------------------------------------------
\* Normalizer harness
\* ------------------------------------------------------------------------
\* inputs of the acceptance examples: 10 scores of 90, 7 of 75 and 5 of 62;
\* 18 scores of at least 85 and 2 below 60, in and out of order
Healthy22 == Repeat(90, 10) \o Repeat(75, 7) \o Repeat(62, 5)
Unhealthy20 == Repeat(90, 18) \o Repeat(50, 2)
Unhealthy20Mixed == <<50, 96>> \o Repeat(88, 17) \o <<55>>
Healthy22Mixed == Repeat(62, 5) \o Repeat(90, 10) \o Repeat(75, 7)

\* six scores of 90: the shortest list above three whose middle tier,
\* int(6 * 0.3) = 1, is under 20% of the list
Unhealthy6 == Repeat(90, 6)

ExampleScores ==
    {Healthy22, Unhealthy20, Unhealthy20Mixed, Healthy22Mixed, Unhealthy6}

NormInputs == {MkRecs(s) : s \in BoundedSeq(Scores, MaxLen) \cup ExampleScores}

NormInit ==
    /\ npc = "ready"
    /\ recommendations \in NormInputs
    /\ normalized = <<>>
    /\ PipelineOff
    /\ sel = SelOff
    /\ rq = RqOff
    /\ lg = LegOff
    /\ ga = GaOff

NormalizeCall ==
    /\ npc = "ready"
    /\ IF normalize_raises(recommendations)
       THEN /\ normalized' = <<>>
            /\ npc' = "raised"
       ELSE /\ normalized' = normalize_scores(recommendations)
            /\ npc' = "done"
    /\ UNCHANGED <<recommendations>>
    /\ UNCHANGED <<pipeVars, selVars, recVars, legVars, ordVars>>

\* _normalize_scores is called on the list it returned
NormalizeAgain ==
    /\ npc = "done"
    /\ recommendations' = normalized
    /\ IF normalize_raises(normalized)
       THEN /\ normalized' = <<>>
            /\ npc' = "raised"
       ELSE /\ normalized' = normalize_scores(normalized)
            /\ npc' = "again"
    /\ UNCHANGED <<pipeVars, selVars, recVars, legVars, ordVars>>

NormNext == NormalizeCall \/ NormalizeAgain

NormSpec == NormInit /\ [][NormNext]_vars

\* ------------------------------------------------------------------------
\* select_careers (POST /api/selected-careers)
\* ------------------------------------------------------------------------
\* the most careerIds the handler goes on with
MaxSelected == 3
\* status_code of the HTTPException raised for a longer list
TooManyStatus == 400

\* the career ids a request draws from
CareerIdSet == {1, 2}

\* what detailed_plan ends up as for one career: the agent's decoded plan,
\* the agent's own fallback plan, or {} when generate_detailed_plan raised
PlanOutcomes == {"detailed", "fallback", "empty"}

\* except Exception around the whole handler body: every exception raised
\* in it, the HTTPException of a raise in the body included, leaves the
\* handler as HTTPException(status_code=500)
select_careers_except(status_code) == 500

\* the entry of selectedCareers the legacy branch builds for one career
LegacyPlan(id) == [careerId |-> id, detailedPlan |-> "none"]

\* the entry of selectedCareers built from a detailed plan
SelectedCareer(id, o) == [careerId |-> id, detailedPlan |-> o]

SelInit ==
    /\ npc = "off"
    /\ recommendations = <<>>
    /\ normalized = <<>>
    /\ PipelineOff
    /\ rq = RqOff
    /\ lg = LegOff
    /\ ga = GaOff
    /\ sel \in {[pc |-> "received", careerIds |-> ids, compass |-> c,
                 plans |-> <<>>, status |-> 0] :
                   ids \in BoundedSeq(CareerIdSet, MaxIds), c \in BOOLEAN}

\* len(request.careerIds) > 3: HTTPException(400) is raised inside the try
\* and caught by the handler's own except Exception
SelectTooMany ==
    /\ sel.pc = "received"
    /\ Len(sel.careerIds) > MaxSelected
    /\ sel' = [sel EXCEPT !.pc = "responded",
                          !.status = select_careers_except(TooManyStatus)]
    /\ UNCHANGED <<normVars, pipeVars, recVars, legVars, ordVars>>

\* the legacy branch: one basic structure per career, no capability call
SelectLegacy ==
    /\ sel.pc = "received"
    /\ Len(sel.careerIds) <= MaxSelected
    /\ ~sel.compass
    /\ sel' = [sel EXCEPT !.pc = "responded", !.status = 200,
                          !.plans = [i \in 1..Len(sel.careerIds) |->
                                        LegacyPlan(sel.careerIds[i])]]
    /\ UNCHANGED <<normVars, pipeVars, recVars, legVars, ordVars>>

\* the Career Compass branch up to the first await of generate_detailed_plan;
\* with no career to plan the loop is skipped and the handler returns
SelectBegin ==
    /\ sel.pc = "received"
    /\ Len(sel.careerIds) <= MaxSelected
    /\ sel.compass
    /\ sel' = IF sel.careerIds = <<>>
              THEN [sel EXCEPT !.pc = "responded", !.status = 200]
              ELSE [sel EXCEPT !.pc = "planning"]
    /\ UNCHANGED <<normVars, pipeVars, recVars, legVars, ordVars>>

\* generate_detailed_plan ends with o for the career in turn: its entry is
\* appended, and after the last career the handler returns
PlanReturn(o) ==
    /\ sel.pc = "planning"
    /\ LET plans == Append(sel.plans,
                      SelectedCareer(sel.careerIds[Len(sel.plans) + 1], o))
       IN sel' = IF Len(plans) = Len(sel.careerIds)
                 THEN [sel EXCEPT !.plans = plans, !.pc = "responded",
                                  !.status = 200]
                 ELSE [sel EXCEPT !.plans = plans]
    /\ UNCHANGED <<normVars, pipeVars, recVars, legVars, ordVars>>

SelNext ==
    \/ SelectTooMany
    \/ SelectLegacy
    \/ SelectBegin
    \/ \E o \in PlanOutcomes : PlanReturn(o)

SelectSpec == SelInit /\ [][SelNext]_vars

\* ------------------------------------------------------------------------
\* CareerOrchestratorAgent.recommend on its own: prompt context and parsing
\* ------------------------------------------------------------------------
max_transcript_length == 4000
\* the size of the prefix transcript[:2000] and of the suffix
\* transcript[-2000:]
KeepLen == 2000
\* len("\n\n[... conversation continues ...]\n\n")
MarkerLen == 36

\* a transcript of n characters, each character standing for its position
Transcript(n) == [i \in 1..n |-> i]

\* the marker's characters are no character of the transcript
ElisionMarker == [i \in 1..MarkerLen |-> 0]

\* a context cut at the threshold from the end only
transcript_context_head_only(transcript) ==
    IF Len(transcript) <= max_transcript_length THEN transcript
    ELSE SubSeq(transcript, 1, max_transcript_length)

transcript_context(transcript) ==
    IF Len(transcript) <= max_transcript_length THEN transcript
    ELSE SubSeq(transcript, 1, KeepLen) \o ElisionMarker
         \o SubSeq(transcript, Len(transcript) - KeepLen + 1, Len(transcript))

\* transcript lengths on both sides of the threshold
TranscriptSizes == {0, 1, 2000, 3999, 4000, 4001, 4036, 6000}

\* Text is a sequence of tokens: "fence" is the three backticks, "json" the
\* four letters, "ws" white space, "{" and "}" the first and the last
\* character of a JSON document and "txt" other characters inside it.
SetMin(S) == CHOOSE x \in S : \A y \in S : x <= y
SetMax(S) == CHOOSE x \in S : \A y \in S : x >= y

\* str.strip()
strip(text) ==
    LET black == {i \in 1..Len(text) : text[i] # "ws"} IN
    IF black = {} THEN <<>> ELSE SubSeq(text, SetMin(black), SetMax(black))

\* content.split("```")[1] of a content that starts with the fence: what
\* stands between that fence and the next one, or the end of the text
split_fence_1(content) ==
    LET later == {i \in 2..Len(content) : content[i] = "fence"} IN
    IF later = {} THEN SubSeq(content, 2, Len(content))
    ELSE SubSeq(content, 2, SetMin(later) - 1)

\* if content.startswith("```"): take split("```")[1], drop a leading
\* "json", strip
strip_code_fence(content) ==
    IF content # <<>> /\ content[1] = "fence"
    THEN LET seg == split_fence_1(content)
             untagged == IF seg # <<>> /\ seg[1] = "json" THEN Tail(seg)
                         ELSE seg
         IN strip(untagged)
    ELSE content

\* json.loads succeeds on a whole document and on nothing else
json_decodes(text) ==
    /\ Len(text) >= 2
    /\ text[1] = "{"
    /\ text[Len(text)] = "}"
    /\ \A i \in 2..(Len(text) - 1) : text[i] \in {"txt", "fence", "ws", "json"}

\* most tokens inside an enumerated document
MaxInner == 2

\* a JSON document whose string values hold the tokens of inner
Document(inner) == <<"{">> \o inner \o <<"}">>

\* an answer that is no JSON
Garbage == <<"txt", "ws", "txt">>

\* how the capability wraps its answer
Wraps == {"bare", "padded", "fenced", "fenced_json"}

Wrap(w, doc) ==
    CASE w = "bare" -> doc
      [] w = "padded" -> <<"ws">> \o doc \o <<"ws">>
      [] w = "fenced" -> <<"fence", "ws">> \o doc \o <<"ws", "fence">>
      [] w = "fenced_json" ->
            <<"fence", "json", "ws">> \o doc \o <<"ws", "fence", "ws">>

\* descending scores, two apart
Spread(n) == [i \in 1..n |-> 93 - 2 * i]

\* list lengths on both sides of the expected 15 to 25
RecLens == {0, 1, 14, 15, 25, 26}

\* the lists an answer decodes to
RecLists ==
    {MkRecs(Repeat(90, n)) : n \in RecLens}
    \cup {MkRecs(Spread(n)) : n \in RecLens}

\* what a document decodes to
DecodedValues ==
    {[kind |-> "list", recs |-> l] : l \in RecLists}
    \cup {[kind |-> k, recs |-> <<>>] : k \in DecodedKinds}

\* the answers of llm.chat: a wrapped JSON document, wrapped text that is
\* no JSON, or an exception
Answers ==
    {[kind |-> "json", wrap |-> w, inner |-> inner, value |-> v] :
        w \in Wraps, inner \in BoundedSeq({"txt", "fence"}, MaxInner),
        v \in DecodedValues}
    \cup {[kind |-> "garbage", wrap |-> w, inner |-> <<>>,
           value |-> [kind |-> "none", recs |-> <<>>]] : w \in Wraps}
    \cup {[kind |-> "raise", wrap |-> "bare", inner |-> <<>>,
           value |-> [kind |-> "none", recs |-> <<>>]]}

\* response.content
Content(a) ==
    IF a.kind = "garbage" THEN Wrap(a.wrap, Garbage)
    ELSE Wrap(a.wrap, Document(a.inner))

\* content = response.content.strip(), the fence removal and json.loads
GenOutcomeOf(a) ==
    IF a.kind = "raise" THEN [kind |-> "raise", recs |-> <<>>]
    ELSE IF json_decodes(strip_code_fence(strip(Content(a)))) THEN a.value
    ELSE [kind |-> "undecodable", recs |-> <<>>]

\* recommend from the answer of llm.chat on
recommend_answer(a) == recommend(GenOutcomeOf(a))

RecInit ==
    /\ npc = "off"
    /\ recommendations = <<>>
    /\ normalized = <<>>
    /\ PipelineOff
    /\ sel = SelOff
    /\ lg = LegOff
    /\ ga = GaOff
    /\ rq \in {[RqOff EXCEPT !.pc = "called", !.transcript = Transcript(n)] :
                 n \in TranscriptSizes}

\* recommend builds the prompt and runs up to its await of llm.chat
RecommendCall ==
    /\ rq.pc = "called"
    /\ rq' = [rq EXCEPT !.pc = "awaiting",
                        !.context = transcript_context(rq.transcript)]
    /\ UNCHANGED <<normVars, pipeVars, selVars, legVars, ordVars>>

\* llm.chat answers a and recommend runs to its end
RecommendReturn(a) ==
    /\ rq.pc = "awaiting"
    /\ rq' = [rq EXCEPT
                !.pc = "returned",
                !.answer = a,
                !.result = recommend_answer(a),
                !.warned = /\ GenOutcomeOf(a).kind \in {"list", "nokey"}
                           /\ count_warns(Len(GenOutcomeOf(a).recs))]
    /\ UNCHANGED <<normVars, pipeVars, selVars, legVars, ordVars>>

RecNext ==
    \/ RecommendCall
    \/ \E a \in Answers : RecommendReturn(a)

RecSpec == RecInit /\ [][RecNext]_vars

\* ------------------------------------------------------------------------
\* The fan-out of analyze on its own: asyncio.gather and the profile literal
\* ------------------------------------------------------------------------
\* the order in which the five coroutines are passed to asyncio.gather
GatherOrder == <<"skills", "personality", "passions", "goals", "values">>

\* the answers of the analyzers' capability calls in this harness; none of
\* them makes the aggregation raise
OrdOutcomes == {"ok", "nokey", "raise"}

\* a gather that lists the results as they arrived
gather_results_as_completed(arrival, outcome) ==
    [i \in 1..Len(GatherOrder) |-> AgentAnalyze(arrival[i], outcome[arrival[i]])]

\* asyncio.gather returns the results in the order of its arguments,
\* whatever the order of completion
gather_results(arrival, outcome) ==
    [i \in 1..Len(GatherOrder) |->
        AgentAnalyze(GatherOrder[i], outcome[GatherOrder[i]])]

\* skills_result = results[0] ... values_result = results[4], each replaced
\* by its fallback if it is an exception
Unpack(results) ==
    [k \in Kinds |->
        Extract(k, results[CHOOSE i \in 1..Len(GatherOrder) :
                              GatherOrder[i] = k])]

OrdInit ==
    /\ npc = "off"
    /\ recommendations = <<>>
    /\ normalized = <<>>
    /\ PipelineOff
    /\ sel = SelOff
    /\ rq = RqOff
    /\ lg = LegOff
    /\ ga = [GaOff EXCEPT !.pc = "gathering"]

\* the analyzer of kind k finishes, its capability call having answered o
BranchDone(k, o) ==
    /\ ga.pc = "gathering"
    /\ ga.outcome[k] = "none"
    /\ ga' = [ga EXCEPT !.outcome[k] = o, !.arrival = Append(@, k)]
    /\ UNCHANGED <<normVars, pipeVars, selVars, recVars, legVars>>

\* all five have finished: gather returns and the profile is built
Aggregate ==
    /\ ga.pc = "gathering"
    /\ Len(ga.arrival) = Len(GatherOrder)
    /\ LET results == gather_results(ga.arrival, ga.outcome) IN
       ga' = [ga EXCEPT !.pc = "aggregated",
                        !.results = results,
                        !.profile = BuildCareerProfile(Unpack(results))]
    /\ UNCHANGED <<normVars, pipeVars, selVars, recVars, legVars>>

OrdNext ==
    \/ \E k \in Kinds, o \in OrdOutcomes : BranchDone(k, o)
    \/ Aggregate

OrdSpec == OrdInit /\ [][OrdNext]_vars

\* ------------------------------------------------------------------------
\* CareerAnalysisOrchestrator.analyze_career on the instance main.py holds
\* ------------------------------------------------------------------------
\* orchestrator = CareerAnalysisOrchestrator(): self.results = {}
LegInit ==
    /\ npc = "off"
    /\ recommendations = <<>>
    /\ normalized = <<>>
    /\ PipelineOff
    /\ sel = SelOff
    /\ rq = RqOff
    /\ ga = GaOff
    /\ lg = [LegOff EXCEPT !.pc = "idle"]

\* a request calls analyze_career; self.results is left as it is
LegStart ==
    /\ lg.pc = "idle"
    /\ lg.call < MaxCalls
    /\ lg' = [lg EXCEPT !.pc = "running", !.call = @ + 1, !.step = 0]
    /\ UNCHANGED <<normVars, pipeVars, selVars, recVars, ordVars>>

\* the agent in turn runs to its end and its result is stored under its
\* name; after the last agent the call returns self.results
LegAgentDone ==
    /\ lg.pc = "running"
    /\ lg.step < Len(analysis_order)
    /\ LET results == [lg.results EXCEPT ![lg.step + 1] = lg.call] IN
       lg' = IF lg.step + 1 = Len(analysis_order)
             THEN [lg EXCEPT !.results = results, !.step = @ + 1,
                             !.pc = "idle", !.returned = results,
                             !.success = TRUE]
             ELSE [lg EXCEPT !.results = results, !.step = @ + 1]
    /\ UNCHANGED <<normVars, pipeVars, selVars, recVars, ordVars>>

\* add_message or run of the agent in turn raises: the except branch
\* returns success False with self.results
LegAgentRaise ==
    /\ lg.pc = "running"
    /\ lg.step < Len(analysis_order)
    /\ lg' = [lg EXCEPT !.pc = "idle", !.returned = lg.results,
                        !.success = FALSE]
    /\ UNCHANGED <<normVars, pipeVars, selVars, recVars, ordVars>>

LegNext ==
    \/ LegStart
    \/ LegAgentDone
    \/ LegAgentRaise

LegSpec == LegInit /\ [][LegNext]_vars

\* ------------------------------------------------------------------------
\* Properties of CareerAnalysisPipeline.analyze (checked under Spec)
\* ------------------------------------------------------------------------
Returned == pc = "returned"

\* the analyzer's capability call raised or answered undecodable text
AnalyzerFailed(k) == llmOutcome[k] \in {"raise", "garbage"}
\* the analyzer got an object holding its key
AnalyzerSucceeded(k) == llmOutcome[k] = "ok"

\* the default each kind documents for a failed analyzer
DocumentedDefault(k) == IF k = "goals" THEN GoalsDefault ELSE EmptyList

\* C1: whatever the five analyzers do, the careerProfile that analyze
\* returns has exactly the keys skills, personality, passions, goals, values.
C1_ProfileHasFiveKeys == Returned => DOMAIN ret.careerProfile = Kinds

\* a run returned after all five analyzers failed
C1_Witness ==
    /\ Returned
    /\ \A k \in Kinds : AnalyzerFailed(k)
    /\ DOMAIN ret.careerProfile = Kinds

C3_SentinelOnDecodeFailure ==
    (Returned /\ genOutcome.kind = "undecodable") =>
        /\ recommendations_result.tag = "dict"
        /\ Len(recommendations_result.recommendations) = 1
        /\ recommendations_result.recommendations[1].fitScore = 0
        /\ recommendations_result.recommendations[1].industry = "System"

\* C4: a run on an empty or too short transcript fails with InputError
\* before fan-out, with no analyzer and no generation call made.
C4_EmptyTranscriptFailsFast ==
    (transcriptLen < MinTranscriptLen /\ pc # "received") =>
        /\ ret.status = "raised"
        /\ ret.error = "InputError"
        /\ \A k \in Kinds : calls[k] = 0 /\ llmCalls[k] = 0
        /\ genCalls = 0

\* C5: when exactly one analyzer fails and the other four succeed, the
\* returned profile holds the documented default for the failed kind and,
\* for each other kind, the payload its analyzer produced.
C5_OneFailureDefaulted ==
    Returned =>
        \A f \in Kinds :
            (AnalyzerFailed(f) /\ \A k \in Kinds \ {f} : AnalyzerSucceeded(k))
            => /\ ret.careerProfile[f] = DocumentedDefault(f)
               /\ \A k \in Kinds \ {f} : ret.careerProfile[k] = Produced(k)

\* C5's statement restricted to the runs whose generated text decodes
C5_WhenGenerationDecodes ==
    genOutcome.kind # "undecodable" => C5_OneFailureDefaulted

\* ------------------------------------------------------------------------
\* Properties of _normalize_scores (checked under NormSpec)
\* ------------------------------------------------------------------------
NonIncreasing(recs) ==
    \A i \in 1..(Len(recs) - 1) : recs[i].fitScore >= recs[i + 1].fitScore

CountIn(recs, lo, hi) ==
    Cardinality({i \in 1..Len(recs) :
                    lo <= recs[i].fitScore /\ recs[i].fitScore <= hi})

\* the health predicate as the specification words it, over the input list
HealthyInput(recs) ==
    LET total == Len(recs) IN
    /\ 10 * CountIn(recs, 85, 1000) <= 6 * total
    /\ 100 * CountIn(recs, 70, 84) >= 20 * total
    /\ 100 * CountIn(recs, 60, 69) >= 15 * total

\* position in the returned list of the candidate generated at position id
PosOf(recs, id) == CHOOSE j \in 1..Len(recs) : recs[j].careerId = id

Ids(recs) == {recs[i].careerId : i \in 1..Len(recs)}

Rescaled == /\ npc = "done"
            /\ recommendations # <<>>
            /\ ~HealthyInput(recommendations)

\* C6: for every input list the list returned by _normalize_scores is
\* non-increasing in fitScore at every pair of adjacent positions.
C6_OutputNonIncreasing == npc = "done" => NonIncreasing(normalized)

\* an out-of-order unhealthy list of at least three candidates was normalized
C6_Witness ==
    /\ Rescaled
    /\ Len(recommendations) >= 3
    /\ ~NonIncreasing(recommendations)
    /\ normalized[1].fitScore > normalized[Len(normalized)].fitScore

\* C7: the returned list has the length of the input and holds every input
\* candidate exactly once, on the healthy path, the rescaling path and for
\* the empty list.
C7_SameLength ==
    npc = "done" =>
        /\ Len(normalized) = Len(recommendations)
        /\ Ids(normalized) = Ids(recommendations)

\* a list with candidates in the low tier went through the rescaling path
C7_Witness ==
    /\ Rescaled
    /\ Len(recommendations) >= 3
    /\ Len(normalized) = Len(recommendations)
    /\ \E i \in 1..Len(recommendations) : recommendations[i].fitScore < 60

\* C8: a healthy input is returned sorted in descending order with every
\* candidate's fitScore unchanged, and an already sorted healthy input is
\* returned exactly as it was passed.
C8_HealthyUnchanged ==
    (npc = "done" /\ HealthyInput(recommendations)) =>
        /\ NonIncreasing(normalized)
        /\ Len(normalized) = Len(recommendations)
        /\ \A i \in 1..Len(recommendations) :
              \E j \in 1..Len(normalized) : normalized[j] = recommendations[i]
        /\ NonIncreasing(recommendations) => normalized = recommendations

\* the 22-candidate example (10 of 90, 7 of 75, 5 of 62) was normalized
C8_Witness ==
    /\ npc = "done"
    /\ recommendations = MkRecs(Healthy22)
    /\ HealthyInput(recommendations)
    /\ normalized = recommendations

\* C9: after rescaling an unhealthy list of length total, exactly
\* floor(0.5*total) candidates score in [85,95], floor(0.3*total) in [70,84]
\* and the rest in [60,69].
C9_TierCounts ==
    Rescaled =>
        LET total == Len(recommendations) IN
        /\ CountIn(normalized, 85, 95) = total \div 2
        /\ CountIn(normalized, 70, 84) = (3 * total) \div 10
        /\ CountIn(normalized, 60, 69)
              = total - (total \div 2) - ((3 * total) \div 10)

\* the 20-candidate example (18 scores of 90, 2 of 50) came out as 10, 6, 4
C9_Witness ==
    /\ Rescaled
    /\ recommendations = MkRecs(Unhealthy20)
    /\ CountIn(normalized, 85, 95) = 10
    /\ CountIn(normalized, 70, 84) = 6
    /\ CountIn(normalized, 60, 69) = 4

\* C10: a candidate with a higher input fitScore precedes one with a lower
\* input fitScore in the output, and candidates with equal input fitScore
\* keep their generation order, whether or not the scores are rescaled.
C10_RankPreserving ==
    npc = "done" =>
        \A i, j \in 1..Len(recommendations) :
            (\/ recommendations[i].fitScore > recommendations[j].fitScore
             \/ /\ recommendations[i].fitScore = recommendations[j].fitScore
                /\ i < j)
            => /\ i \in Ids(normalized)
               /\ j \in Ids(normalized)
               /\ PosOf(normalized, i) < PosOf(normalized, j)

\* an unhealthy list with a tie between candidates generated after a
\* lower-scored one was rescaled
C10_Witness ==
    /\ Rescaled
    /\ \E i, j, k \in 1..Len(recommendations) :
          /\ i < j /\ j < k
          /\ recommendations[i].fitScore < recommendations[j].fitScore
          /\ recommendations[j].fitScore = recommendations[k].fitScore
          /\ PosOf(normalized, j) < PosOf(normalized, k)
          /\ PosOf(normalized, k) < PosOf(normalized, i)
          /\ normalized[PosOf(normalized, j)].fitScore
                # recommendations[j].fitScore

\* C11: for every list length the rescaling never divides by zero, each
\* tier's denominator being max(size - 1, 1) also for tiers of size 0 or 1,
\* and a high tier of exactly one candidate gives that candidate fitScore 95.
C11_NoDivisionByZero ==
    /\ npc # "raised"
    /\ Rescaled =>
          LET total == Len(recommendations) IN
          /\ tier_denominator(target_high(total)) >= 1
          /\ tier_denominator(target_mid(total)) >= 1
          /\ tier_denominator(target_low(total)) >= 1
          /\ target_high(total) = 1 => normalized[1].fitScore = 95

\* a list whose high tier has one candidate and whose middle tier has none
\* was rescaled
C11_Witness ==
    /\ Rescaled
    /\ target_high(Len(recommendations)) = 1
    /\ target_mid(Len(recommendations)) = 0
    /\ normalized[1].fitScore = 95
    /\ normalized[Len(normalized)].fitScore < 70

\* C12: the output for a non-empty list passes the distribution validation
\* of test_career_recommendations: at most 60% of the candidates score 85 or
\* more and at least 15% score in 60..69.
C12_PassesTestValidation ==
    (npc = "done" /\ recommendations # <<>>) =>
        LET total == Len(normalized) IN
        /\ 10 * CountIn(normalized, 85, 1000) <= 6 * total
        /\ 100 * CountIn(normalized, 60, 69) >= 15 * total

\* a list of at least three candidates all scoring 85 or more was normalized
C12_Witness ==
    /\ npc = "done"
    /\ Len(recommendations) >= 3
    /\ CountIn(recommendations, 85, 1000) = Len(recommendations)
    /\ CountIn(normalized, 60, 69) >= 1

HighOK(recs) == 10 * CountIn(recs, 85, 1000) <= 6 * Len(recs)
MidOK(recs) == 100 * CountIn(recs, 70, 84) >= 20 * Len(recs)

\* every input candidate is in the output with its fitScore as it was
Verbatim ==
    /\ Len(normalized) = Len(recommendations)
    /\ \A i \in 1..Len(recommendations) :
          \E j \in 1..Len(normalized) : normalized[j] = recommendations[i]

\* C20 as stated: a list whose high and middle counts meet their thresholds
\* and whose candidates below 70, those below 60 included, are at least 15%
\* is healthy and comes back with its scores verbatim.
C20_Below60CountsAsLow ==
    (/\ npc = "done"
     /\ recommendations # <<>>
     /\ HighOK(recommendations)
     /\ MidOK(recommendations)
     /\ 100 * CountIn(recommendations, -1000, 69)
           >= 15 * Len(recommendations))
    => Verbatim

\* C20 as amended: only scores in 60..69 count toward the low band.  A list
\* meeting the three thresholds with that band comes back verbatim, scores
\* below 60 included; a list with fewer than 15% in 60..69 is rescaled, so
\* no score below 60 survives.
C20_LowBandIs60To69 ==
    (npc = "done" /\ recommendations # <<>>) =>
        /\ (/\ HighOK(recommendations)
            /\ MidOK(recommendations)
            /\ 100 * CountIn(recommendations, 60, 69)
                  >= 15 * Len(recommendations))
           => Verbatim
        /\ 100 * CountIn(recommendations, 60, 69) < 15 * Len(recommendations)
           => \A i \in 1..Len(normalized) :
                 60 <= normalized[i].fitScore /\ normalized[i].fitScore <= 95

\* a list that meets the thresholds only if scores below 60 count as low was
\* rescaled
C20_Witness ==
    /\ npc = "done"
    /\ HighOK(recommendations)
    /\ MidOK(recommendations)
    /\ 100 * CountIn(recommendations, -1000, 69) >= 15 * Len(recommendations)
    /\ CountIn(recommendations, 60, 69) = 0
    /\ CountIn(recommendations, -1000, 59) >= 1
    /\ CountIn(normalized, -1000, 59) = 0

\* analyzer k has finished and its capability call failed
BranchFailed(k) == agentPc[k] = "done" /\ AnalyzerFailed(k)

\* analyzer j can take its next step
BranchCanStep(j) ==
    /\ agentPc[j] = "scheduled" => ENABLED AgentCallLLM(j)
    /\ agentPc[j] = "awaiting" => ENABLED AgentLLMReturn(j, "ok")

\* C13: once an analyzer branch has failed, every sibling that has not
\* finished can still take its next step while analyze waits in gather, no
\* sibling is cancelled unless the caller cancelled the run, analyze leaves
\* gather only when all five branches have finished, and the aggregated
\* profile holds for every kind the value its branch returned.
C13_BranchesIsolated ==
    (\E k \in Kinds : BranchFailed(k)) =>
        /\ pc = "gathering" => \A j \in Kinds : BranchCanStep(j)
        /\ pc # "cancelled" => \A j \in Kinds : agentPc[j] # "cancelled"
        /\ pc \in {"generating", "returned"} =>
              \A j \in Kinds : agentPc[j] = "done"
        /\ genCalls > 0 =>
              \A j \in Kinds :
                  /\ agentResult[j].tag = "dict"
                  /\ career_profile[j] =
                        Get(agentResult[j], j,
                            IF j = "goals" THEN EmptyDict ELSE EmptyList)
                  /\ AnalyzerSucceeded(j) => career_profile[j] = Produced(j)

\* the skills branch failed, the four others succeeded, and the profile was
\* aggregated with their four results
C13_Witness ==
    /\ pc = "generating"
    /\ llmOutcome["skills"] = "raise"
    /\ \A j \in Kinds \ {"skills"} :
          AnalyzerSucceeded(j) /\ career_profile[j] = Produced(j)

\* one analyzer's capability call never responds, the four others finished
OneBranchHung ==
    /\ pc = "gathering"
    /\ \E k \in Kinds : /\ agentPc[k] = "hung"
                        /\ \A j \in Kinds \ {k} : agentPc[j] = "done"

\* C14: when one analyzer's capability call never responds and the other
\* four branches have finished, the run can leave the fan-out stage on its
\* own: the aggregation step is enabled.
C14_HungBranchTimesOut == OneBranchHung => ENABLED GatherDone

\* C15: a run cancelled by its caller after fan-out still yields a returned
\* result with a five-key profile in which every cancelled branch's kind
\* holds its default payload.
C15_CancelledBranchDefaulted ==
    (pc = "cancelled" /\ "FannedOut" \in {stages[i] : i \in 1..Len(stages)}) =>
        /\ ret.status = "returned"
        /\ DOMAIN ret.careerProfile = Kinds
        /\ \A k \in Kinds :
              agentPc[k] = "cancelled" =>
                  ret.careerProfile[k] = DocumentedDefault(k)

FullOrder ==
    <<"Received", "FannedOut", "Aggregated", "Generated", "Normalized",
      "Returned">>

\* C16: the generation capability is called only once all five branches
\* have finished, a returned run went through exactly Received, FannedOut,
\* Aggregated, Generated, Normalized, Returned, a run below the minimum
\* transcript length never leaves Received except to Failed, and a run that
\* ends in an error ends in Failed straight from Received.
C16_StageOrder ==
    /\ genCalls > 0 => \A k \in Kinds : agentPc[k] = "done"
    /\ Returned => stages = FullOrder
    /\ transcriptLen < MinTranscriptLen =>
          stages \in {<<"Received">>, <<"Received", "Failed">>}
    /\ ret.status = "raised" => stages = <<"Received", "Failed">>

\* the overall status a run reports to its caller: the result of analyze
\* holds careerProfile and careerRecommendations only, and the endpoint
\* answers "success": True for every result analyze returns
RunStatus(r) == IF r.status = "returned" THEN "success" ELSE "error"

\* C17: a returned run reports a status that tells a complete run from a
\* degraded one: the status of a run in which all five analyzers succeeded
\* differs from the status of a run in which one failed or was defaulted.
C17_StatusTellsDegraded ==
    Returned =>
        IF \A k \in Kinds : AnalyzerSucceeded(k)
        THEN RunStatus(ret) = "success"
        ELSE RunStatus(ret) # "success"

\* C18: the careerId values of a returned recommendation list are pairwise
\* distinct.
C18_CareerIdsDistinct ==
    Returned =>
        \A i, j \in 1..Len(ret.careerRecommendations) :
            i # j => ret.careerRecommendations[i].careerId #
                     ret.careerRecommendations[j].careerId

\* ------------------------------------------------------------------------
\* Properties of select_careers (checked under SelectSpec)
\* ------------------------------------------------------------------------
\* C19: a request with more than 3 careerIds is answered with status 400
\* and no action plan.
C19_TooManyAnswered400 ==
    (sel.pc = "responded" /\ Len(sel.careerIds) > MaxSelected) =>
        /\ sel.status = TooManyStatus
        /\ sel.plans = <<>>

\* ------------------------------------------------------------------------
\* Further properties of _normalize_scores (checked under NormSpec)
\* ------------------------------------------------------------------------
\* C27: _normalize_scores applied to a list it returned gives that list
\* again, candidate by candidate and score by score, whether the first
\* result was healthy or not.
C27_Idempotent == npc = "again" => normalized = recommendations

\* a returned list of at least three candidates that is not healthy went
\* through the redistribution a second time and came back the same
C27_Witness ==
    /\ npc = "again"
    /\ Len(recommendations) >= 3
    /\ ~HealthyInput(recommendations)
    /\ recommendations[1].fitScore > recommendations[2].fitScore
    /\ normalized = recommendations

\* C28 as stated: the list returned for a non-empty input is healthy under
\* the normalizer's own predicate.
C28_OutputHealthy ==
    (npc = "done" /\ recommendations # <<>>) => HealthyInput(normalized)

\* C28 as amended: the returned list meets the high and the low threshold
\* for every length, and meets the middle threshold exactly when the input
\* was healthy or floor(0.3*total) is at least 0.2*total, which fails for
\* total 1, 2, 3 and 6.
C28_HealthyButForMidTier ==
    (npc = "done" /\ recommendations # <<>>) =>
        LET total == Len(recommendations) IN
        /\ HighOK(normalized)
        /\ 100 * CountIn(normalized, 60, 69) >= 15 * total
        /\ MidOK(normalized) <=>
              \/ HealthyInput(recommendations)
              \/ 10 * ((3 * total) \div 10) >= 2 * total
        /\ 10 * ((3 * total) \div 10) >= 2 * total <=> total \notin {1, 2, 3, 6}

\* three candidates were rescaled into a list with no candidate in 70..84
C28_Witness ==
    /\ Rescaled
    /\ Len(recommendations) = 3
    /\ CountIn(normalized, 70, 84) = 0
    /\ ~HealthyInput(normalized)

\* a candidate without its fitScore
Rest(c) == [f \in DOMAIN c \ {"fitScore"} |-> c[f]]

\* C29: every candidate of the input is in the output with every field but
\* fitScore as it was, on the healthy and on the rescaling path.
C29_OnlyFitScoreChanges ==
    npc = "done" =>
        /\ Len(normalized) = Len(recommendations)
        /\ \A i \in 1..Len(recommendations) :
              \E j \in 1..Len(normalized) :
                  /\ normalized[j].careerId = recommendations[i].careerId
                  /\ DOMAIN normalized[j] = DOMAIN recommendations[i]
                  /\ Rest(normalized[j]) = Rest(recommendations[i])

\* a list whose candidates differ in industry was reordered and rescaled
C29_Witness ==
    /\ Rescaled
    /\ Len(recommendations) >= 2
    /\ normalized[1].careerId = 2
    /\ normalized[1].industry = "Healthcare"
    /\ normalized[1].fitScore # recommendations[2].fitScore
    /\ normalized[2].industry = "Technology"

\* ------------------------------------------------------------------------
\* Properties of recommend on its own (checked under RecSpec)
\* ------------------------------------------------------------------------
\* C21: the transcript context put into the prompt is the whole transcript
\* when it has at most 4000 characters; otherwise it is the first 2000
\* characters, the elision marker and the last 2000 characters, so both
\* ends of the transcript are kept, and it is never longer than 4000 plus
\* the marker.
C21_ContextWindow ==
    rq.pc \in {"awaiting", "returned"} =>
        LET t == rq.transcript
            c == rq.context
            n == Len(rq.transcript)
        IN /\ n <= 4000 => c = t
           /\ n > 4000 =>
                 /\ Len(c) = 2000 + MarkerLen + 2000
                 /\ \A i \in 1..2000 : c[i] = t[i]
                 /\ \A i \in 1..MarkerLen : c[2000 + i] = ElisionMarker[i]
                 /\ \A i \in 1..2000 :
                       c[2000 + MarkerLen + i] = t[n - 2000 + i]
           /\ n > 0 => c[1] = t[1] /\ c[Len(c)] = t[n]
           /\ Len(c) <= 4000 + MarkerLen

\* the context of a transcript of 6000 characters was built
C21_Witness ==
    /\ rq.pc = "awaiting"
    /\ Len(rq.transcript) = 6000
    /\ Len(rq.context) = 4036
    /\ rq.context[2000] = 2000
    /\ rq.context[2001] = 0
    /\ rq.context[2037] = 4001
    /\ rq.context[4036] = 6000

\* the answer is a JSON document that reaches json.loads whole
DecodesWhole ==
    /\ rq.pc = "returned"
    /\ rq.answer.kind = "json"
    /\ \/ rq.answer.wrap \in {"bare", "padded"}
       \/ \A i \in 1..Len(rq.answer.inner) : rq.answer.inner[i] # "fence"

\* C22: for a decoded recommendations list of any length n, below 15, above
\* 25 and 0 included, recommend returns a set of exactly the n candidates of
\* the list, and the count check does no more than log a warning, which it
\* does exactly for n below 15.
C22_CountNeverBlocks ==
    (DecodesWhole /\ rq.answer.value.kind = "list") =>
        /\ rq.result.tag = "dict"
        /\ Len(rq.result.recommendations) = Len(rq.answer.value.recs)
        /\ Ids(rq.result.recommendations) = Ids(rq.answer.value.recs)
        /\ rq.warned <=> Len(rq.answer.value.recs) < 15

\* a list of 14 candidates was returned with a warning
C22_Witness ==
    /\ DecodesWhole
    /\ rq.answer.value.kind = "list"
    /\ Len(rq.answer.value.recs) = 14
    /\ rq.warned
    /\ Len(rq.result.recommendations) = 14
    /\ rq.result.recommendations[1].careerId # ErrorFallbackId

\* C24: when the text P of a document decodes to a recommendations list,
\* recommend returns for P wrapped in code-fence markers, with or without
\* the json tag, what it returns for P itself: the set normalized from that
\* list.
C24_FenceTransparent ==
    (/\ rq.pc = "returned"
     /\ rq.answer.kind = "json"
     /\ rq.answer.value.kind = "list"
     /\ rq.answer.wrap \in {"fenced", "fenced_json"}
     /\ json_decodes(Document(rq.answer.inner)))
    => /\ rq.result = recommend_answer([rq.answer EXCEPT !.wrap = "bare"])
       /\ rq.result.tag = "dict"
       /\ Len(rq.result.recommendations) = Len(rq.answer.value.recs)

\* the result is the one sentinel candidate
IsSentinelSet(r) ==
    /\ r.tag = "dict"
    /\ Len(r.recommendations) = 1
    /\ r.recommendations[1].careerId = ErrorFallbackId
    /\ r.recommendations[1].fitScore = 0
    /\ r.recommendations[1].industry = "System"

\* the generation step failed otherwise than by a decode error, with a
\* decoded value of one of kinds
FailedOtherThanDecode(kinds) ==
    /\ rq.pc = "returned"
    /\ \/ rq.answer.kind = "raise"
       \/ DecodesWhole /\ rq.answer.value.kind \in kinds

\* C26 as stated: the capability call raising, a decoded value that is no
\* object with a recommendations list, and incomparable fitScore values all
\* make recommend return exactly the sentinel candidate.
C26_SentinelOnOtherFailures ==
    FailedOtherThanDecode(DecodedKinds) => IsSentinelSet(rq.result)

\* C26 as amended: the capability call raising, a decoded value that is no
\* object, a recommendations value that is no list and incomparable
\* fitScore values make recommend return exactly the sentinel candidate; a
\* decoded object without the key recommendations makes it return the empty
\* set.
C26_SentinelButForMissingKey ==
    /\ FailedOtherThanDecode({"nondict", "badlist", "badscores"})
          => IsSentinelSet(rq.result)
    /\ FailedOtherThanDecode({"nokey"}) /\ rq.answer.kind = "json"
          => rq.result.tag = "dict" /\ rq.result.recommendations = <<>>

\* a list with incomparable fitScore values ended in the sentinel candidate
C26_Witness ==
    /\ FailedOtherThanDecode({"badscores"})
    /\ rq.answer.kind = "json"
    /\ IsSentinelSet(rq.result)

\* ------------------------------------------------------------------------
\* Further properties of CareerAnalysisPipeline.analyze (checked under Spec)
\* ------------------------------------------------------------------------
\* C25: whatever the generation capability answers, the careerProfile that
\* analyze returns is the profile it aggregated from the analyzer results
\* before calling recommend.
C25_GenerationKeepsProfile ==
    (Returned /\ genCalls > 0) => ret.careerProfile = career_profile

\* C25's statement for the runs whose generated text is not undecodable
C25_UnlessUndecodable ==
    (Returned /\ genCalls > 0 /\ genOutcome.kind # "undecodable")
        => ret.careerProfile = career_profile

\* ------------------------------------------------------------------------
\* Properties of the fan-out (checked under OrdSpec)
\* ------------------------------------------------------------------------
\* C23: the aggregated profile is a function of the per-kind analyzer
\* outcomes alone: in whatever order the five branches complete, each
\* kind's payload is what the analyzer of that kind returned under its own
\* key, or that kind's empty default.
C23_OrderIndependent ==
    ga.pc = "aggregated" =>
        \A k \in Kinds :
            /\ ga.profile[k] =
                  Get(AgentAnalyze(k, ga.outcome[k]), k,
                      IF k = "goals" THEN EmptyDict ELSE EmptyList)
            /\ ga.outcome[k] = "ok" => ga.profile[k] = Produced(k)

\* the branches completed in the reverse of the gather order and the
\* profile holds each analyzer's payload under its kind
C23_Witness ==
    /\ ga.pc = "aggregated"
    /\ ga.arrival = <<"values", "goals", "passions", "personality", "skills">>
    /\ \A k \in Kinds : ga.outcome[k] = "ok" /\ ga.profile[k] = Produced(k)

\* ------------------------------------------------------------------------
\* Properties of the legacy orchestrator (checked under LegSpec)
\* ------------------------------------------------------------------------
\* C30: the results a call of analyze_career returns hold only entries
\* computed during that call: every entry is of the call that returned it.
C30_OnlyOwnResults ==
    (lg.pc = "idle" /\ lg.call > 0) =>
        \A i \in 1..Len(analysis_order) : lg.returned[i] \in {0, lg.call}

====
